---- MODULE Spec2Model ----
(***************************************************************************)
(* Chunked long-audio transcription (transcript/speechtotext.py,           *)
(* class AudioTranscriber): load_audio, the chunk_audio generator,         *)
(* transcribe_batch and the transcribe_audio driver, as a state machine    *)
(* (Spec); and, each under a specification of its own, the video player    *)
(* of datacollection/videoplay.py with its reader threads (PlayerSpec),    *)
(* convert_video_to_images (FramesSpec), split_video (SplitSpec) and       *)
(* process_video (ProcessSpec).                                            *)
(*                                                                         *)
(* Representation.                                                          *)
(*  - A waveform is a sequence of samples; the file that decodes to n      *)
(*    samples carries the samples 1, 2, ..., n, so that every window of    *)
(*    the waveform is recognisable from its contents.                      *)
(*  - Durations in seconds are rationals written as a numerator over       *)
(*    SecondsDenominator (a third of a sample period), so that             *)
(*    seconds * sample_rate may fall between two integers; the product is  *)
(*    taken exactly (no floating-point rounding error).                    *)
(*  - A text is a sequence of characters; SPACE is the separator and the   *)
(*    inference backend is the deterministic stub that renders every       *)
(*    sample of a chunk as one character.                                  *)
(***************************************************************************)
EXTENDS Integers, Sequences, FiniteSets, TLC

\* ---------------------------------------------------------------- bounds
MaxLen == 6            \* longest waveform, in samples
MaxChunkTicks == 9     \* largest chunk_length_seconds numerator
MaxOverlapTicks == 6   \* largest overlap_seconds numerator
MaxBatch == 3          \* largest batch_size
MaxCalls == 2          \* calls of transcribe_audio in one behaviour
MaxEmit == MaxLen + 1  \* chunks one generator may yield before the model stops following it
MaxFrames == 2         \* frames of the longest video a player is given
MaxThreads == 3        \* reader threads one player creates in one behaviour
MaxTotalFrames == 5    \* largest frame count of a video given to convert_video_to_images
MaxMaxLength == 3      \* largest max_length
MaxSegments == 3       \* largest num_segments given to split_video
MaxTime == 3           \* largest start_time, end_time and video duration, in seconds

\* ------------------------------------------------------- program constants
SAMPLE_RATE == 16000
SecondsDenominator == 3 * SAMPLE_RATE

SPACE == 0             \* the " " of " ".join
Missing == 0 - 1       \* a path librosa.load cannot open or decode

\* the concrete scenario of the specification: 70 samples cut with
\* chunk_length_samples = 30 and overlap_samples = 10, batched by 2
Scenario == [len |-> 70, chunk_length_samples |-> 30, overlap_samples |-> 10,
             batch_size |-> 2]
TicksPerSample == SecondsDenominator \div SAMPLE_RATE
ScenarioSeconds == <<Scenario.chunk_length_samples * TicksPerSample,
                     Scenario.overlap_samples * TicksPerSample>>

\* the (chunk_length_seconds, overlap_seconds) pairs a transcriber is built with
Durations == ((0..MaxChunkTicks) \X (0..MaxOverlapTicks)) \cup {ScenarioSeconds}

\* the paths a call may be given: the scenario's file is explored with the
\* scenario's durations only
Files(cl, ov) ==
    {Missing} \cup (0..MaxLen)
        \cup (IF <<cl, ov>> = ScenarioSeconds THEN {Scenario.len} ELSE {})

VARIABLES
    chunk_length_seconds, overlap_seconds, batch_size,  \* self.* set by __init__
    pc,                   \* position of the control thread in transcribe_audio
    ncalls,               \* calls of transcribe_audio started so far
    audio_file,           \* argument of the current call
    audio_data,           \* local of transcribe_audio
    gen_pc,               \* generator object of chunk_audio: none/unstarted/yielded/done
    chunk_length_samples, overlap_samples, start, end, chunk,  \* generator locals
    batch_chunks, all_transcriptions,                          \* locals of transcribe_audio
    empty_cache_calls,    \* history: torch.cuda.empty_cache() calls in this call
    exc,                  \* exception caught by the except clause of the current call
    outcome,              \* how the current call left transcribe_audio
    emitted,              \* history: windows yielded by the generator in this call
    calls,                \* history: argument of every transcribe_batch call in this call
    prev                  \* history: the previous call

\* datacollection/videoplay.py, class VideoPlayer, its controlling thread and
\* the threads that run _read_frames
VARIABLES
    video_frames,         \* frames the file at self.video_path holds
    _state,               \* self._state: "STOPPED", "PLAYING" or "PAUSED"
    cap,                  \* self.cap: "None", "open", or "released" (released, not yet None)
    cap_pos,              \* CAP_PROP_POS_FRAMES of the capture
    is_looping,           \* self.is_looping
    _frame_thread,        \* self._frame_thread: NoThread or a reader thread
    _stop_event,          \* self._stop_event: "None", or the event, "clear" or "set"
    tpc,                  \* position of every thread in the code it runs
    loop,                 \* argument of the current call of play
    nthreads,             \* reader threads created so far
    ended,                \* history: readers that took the end-of-video branch (line 63)
    last_op,              \* history: the method that last returned to the controlling thread
    trans                 \* history: the last assignment to self._state

\* one call of each function of datacollection: its arguments, what the
\* environment answers, its locals, its effects and how it ended
VARIABLES
    convert_video_to_images,   \* frame_from_video.py
    split_video,               \* convertintoclip.py
    process_video              \* videoformatingconversion.py

config == <<chunk_length_seconds, overlap_seconds, batch_size>>
genvars == <<gen_pc, chunk_length_samples, overlap_samples, start, end, chunk>>
transcribervars == <<chunk_length_seconds, overlap_seconds, batch_size, pc, ncalls,
          audio_file, audio_data, gen_pc, chunk_length_samples,
          overlap_samples, start, end, chunk, batch_chunks,
          all_transcriptions, empty_cache_calls, exc, outcome, emitted,
          calls, prev>>
playervars == <<video_frames, _state, cap, cap_pos, is_looping, _frame_thread,
                _stop_event, tpc, loop, nthreads, ended, last_op, trans>>
vars == <<transcribervars, playervars, convert_video_to_images, split_video,
          process_video>>

\* what the transcriber leaves alone
others == <<playervars, convert_video_to_images, split_video, process_video>>

\* ---------------------------------------------------------------- helpers
Min(a, b) == IF a < b THEN a ELSE b
Max(a, b) == IF a > b THEN a ELSE b
CeilDiv(a, b) == (a + b - 1) \div b

\* librosa.load(audio_file, sr=SAMPLE_RATE, mono=True) on a decodable file
Decode(f) == [i \in 1..f |-> i]

\* int(seconds * self.sample_rate): the product truncated to an integer
ToSamples(seconds) == (seconds * SAMPLE_RATE) \div SecondsDenominator

\* audio_data[lo:hi]: a negative index counts from the end, both are clamped;
\* the slice is a view on the memory of audio_data, off samples into it
PySlice(a, lo, hi) ==
    LET n == Len(a)
        norm(i) == IF i < 0 THEN Max(i + n, 0) ELSE Min(i, n)
        s == norm(lo)
        e == norm(hi)
    IN  [data |-> IF s < e THEN SubSeq(a, s + 1, e) ELSE <<>>,
         view |-> TRUE, off |-> s]

Copy_View(c) == c
\* chunk.copy(): same samples in a buffer of its own
Copy(c) == [data |-> c.data, view |-> FALSE, off |-> c.off]

\* start = 0
FirstStart == 0

ChunkEnd_NoClamp(s, cls, n) == s + cls
\* end = min(start + chunk_length_samples, len(audio_data))
ChunkEnd(s, cls, n) == Min(s + cls, n)

ReachedEnd_Never(e, n) == FALSE
\* if end == len(audio_data): break
ReachedEnd(e, n) == e = n

NextStart_NoOverlap(s, cls, ovs) == s + cls
NextStart_Skip(s, cls, ovs) == s + cls - ovs + 1
NextStart_OverlapTwice(s, cls, ovs) == s + cls - 2 * ovs
\* start += chunk_length_samples - overlap_samples
NextStart(s, cls, ovs) == s + cls - ovs

WhileCond_Inclusive(s, n) == s <= n
\* while start < len(audio_data)
WhileCond(s, n) == s < n

BatchFull_OffByOne(b, size) == Len(b) = size + 1
BatchFull_Never(b, size) == FALSE
\* if len(batch_chunks) == self.batch_size
BatchFull(b, size) == Len(b) = size

\* the backend stub: one character per sample, in order
Render(data) == data

\* self.pipe(audio_chunks, ...): one {"text": ...} per chunk, in order
Pipe(audio_chunks) ==
    [i \in 1..Len(audio_chunks) |-> [text |-> Render(audio_chunks[i].data)]]

\* the pipeline is handed the arrays themselves and may write into them: what
\* is left of the waveform a when every array that is a view on it is overwritten
BackendWrites(a, chunks) ==
    [i \in 1..Len(a) |->
        IF \E k \in 1..Len(chunks) :
               /\ chunks[k].view
               /\ i > chunks[k].off
               /\ i <= chunks[k].off + Len(chunks[k].data)
        THEN 0 ELSE a[i]]

\* return [chunk["text"] for chunk in transcriptions]
transcribe_batch(audio_chunks) ==
    LET transcriptions == Pipe(audio_chunks)
    IN  [i \in 1..Len(transcriptions) |-> transcriptions[i].text]

ListExtend_Front(l, items) == items \o l
\* all_transcriptions.extend(transcriptions)
ListExtend(l, items) == l \o items

RECURSIVE StrJoin(_, _)
\* " ".join(all_transcriptions)
StrJoin(sep, items) ==
    IF items = <<>> THEN <<>>
    ELSE IF Len(items) = 1 THEN items[1]
    ELSE items[1] \o <<sep>> \o StrJoin(sep, Tail(items))

FreshBatchChunks_Stale == batch_chunks
\* batch_chunks = []
FreshBatchChunks == <<>>

ClearedBatchChunks_Kept == batch_chunks
\* batch_chunks = [] after a full batch
ClearedBatchChunks == <<>>

HasRemaining_Never(b) == FALSE
HasRemaining_Always(b) == TRUE
\* if batch_chunks:
HasRemaining(b) == b # <<>>

EmptyCache_Skipped(n) == n
\* torch.cuda.empty_cache()
EmptyCache(n) == n + 1

\* logging.error() called without its msg argument raises TypeError
ExceptClauseRaises == "TypeError"

NoOutcome == [status |-> "none", value |-> <<>>, kind |-> "none"]
Returned(v) == [status |-> "returned", value |-> v, kind |-> "none"]
Raised(k) == [status |-> "raised", value |-> <<>>, kind |-> k]

\* ------------------------------------------------- threads of the player
MainThread == 0             \* the thread that calls play, pause, resume, stop
NoThread == 0 - 1           \* self._frame_thread = None
Readers == 1..MaxThreads    \* threading.Thread(target=self._read_frames), in creation order

\* VideoPlayer.__init__: the fields of a player that has just been constructed
PlayerConstructed ==
    /\ _state = "STOPPED"
    /\ cap = "None"
    /\ cap_pos = 0
    /\ is_looping = FALSE
    /\ _frame_thread = NoThread
    /\ _stop_event = "None"
    /\ tpc = [t \in {MainThread} \cup Readers |->
                  IF t = MainThread THEN "idle" ELSE "new"]
    /\ loop = FALSE
    /\ nthreads = 0
    /\ ended = {}
    /\ last_op = "none"
    /\ trans = [from |-> "STOPPED", to |-> "STOPPED", by |-> "__init__"]

\* a program that uses no player
NoPlayer == video_frames = 0 /\ PlayerConstructed

\* a function of datacollection that is not called
NotCalled == [pc |-> "not_called"]

\* a program that constructs no AudioTranscriber
NoTranscriber ==
    /\ chunk_length_seconds = 0 /\ overlap_seconds = 0 /\ batch_size = 0
    /\ pc = "idle" /\ ncalls = 0 /\ audio_file = Missing /\ audio_data = <<>>
    /\ gen_pc = "none" /\ chunk_length_samples = 0 /\ overlap_samples = 0
    /\ start = 0 /\ end = 0 /\ chunk = [data |-> <<>>, view |-> TRUE, off |-> 0]
    /\ batch_chunks = <<>> /\ all_transcriptions = <<>> /\ empty_cache_calls = 0
    /\ exc = "none" /\ outcome = NoOutcome /\ emitted = <<>> /\ calls = <<>>
    /\ prev = [file |-> Missing, calls |-> <<>>, outcome |-> NoOutcome]

\* ------------------------------------------------------------------- Init
\* the state after AudioTranscriber(...) has been constructed
Init ==
    /\ \E d \in Durations :
           /\ chunk_length_seconds = d[1]
           /\ overlap_seconds = d[2]
    /\ batch_size \in 0..MaxBatch
    /\ pc = "idle"
    /\ ncalls = 0
    /\ audio_file = Missing
    /\ audio_data = <<>>
    /\ gen_pc = "none"
    /\ chunk_length_samples = 0
    /\ overlap_samples = 0
    /\ start = 0
    /\ end = 0
    /\ chunk = [data |-> <<>>, view |-> TRUE, off |-> 0]
    /\ batch_chunks = <<>>
    /\ all_transcriptions = <<>>
    /\ empty_cache_calls = 0
    /\ exc = "none"
    /\ outcome = NoOutcome
    /\ emitted = <<>>
    /\ calls = <<>>
    /\ prev = [file |-> Missing, calls |-> <<>>, outcome |-> NoOutcome]
    /\ NoPlayer
    /\ convert_video_to_images = NotCalled
    /\ split_video = NotCalled
    /\ process_video = NotCalled

\* ---------------------------------------------------------------- actions
\* a caller invokes transcriber.transcribe_audio(audio_file)
Call ==
    /\ pc \in {"idle", "done"}
    /\ ncalls < MaxCalls
    /\ \E f \in Files(chunk_length_seconds, overlap_seconds) : audio_file' = f
    /\ ncalls' = ncalls + 1
    /\ prev' = IF pc = "done"
               THEN [file |-> audio_file, calls |-> calls, outcome |-> outcome]
               ELSE prev
    /\ pc' = "load"
    /\ gen_pc' = "none"
    /\ exc' = "none"
    /\ outcome' = NoOutcome
    /\ emitted' = <<>>
    /\ calls' = <<>>
    /\ empty_cache_calls' = 0
    /\ UNCHANGED others
    /\ UNCHANGED <<config, audio_data, chunk_length_samples, overlap_samples,
                   start, end, chunk, batch_chunks, all_transcriptions>>

\* audio_data = self.load_audio(audio_file); the generator object is made,
\* all_transcriptions = [] and batch_chunks = []
LoadAudio ==
    /\ pc = "load"
    /\ IF audio_file = Missing
       THEN /\ exc' = "AudioLoadError"
            /\ pc' = "except"
            /\ UNCHANGED <<audio_data, gen_pc, all_transcriptions, batch_chunks>>
       ELSE /\ audio_data' = Decode(audio_file)
            /\ gen_pc' = "unstarted"
            /\ all_transcriptions' = <<>>
            /\ batch_chunks' = FreshBatchChunks
            /\ pc' = "iter"
            /\ UNCHANGED exc
    /\ UNCHANGED others
    /\ UNCHANGED <<empty_cache_calls, config, ncalls, audio_file, chunk_length_samples,
                   overlap_samples, start, end, chunk, outcome, emitted,
                   calls, prev>>

\* the for loop asks the generator of chunk_audio for its next chunk
ChunkAudioNext ==
    /\ pc = "iter"
    /\ Len(emitted) < MaxEmit
    /\ LET n == Len(audio_data)
           cls == IF gen_pc = "unstarted"
                  THEN ToSamples(chunk_length_seconds) ELSE chunk_length_samples
           ovs == IF gen_pc = "unstarted"
                  THEN ToSamples(overlap_seconds) ELSE overlap_samples
           broke == gen_pc = "yielded" /\ ReachedEnd(end, n)
           s == IF gen_pc = "unstarted" THEN FirstStart
                ELSE IF broke THEN start ELSE NextStart(start, cls, ovs)
           e == ChunkEnd(s, cls, n)
       IN  /\ chunk_length_samples' = cls
           /\ overlap_samples' = ovs
           /\ start' = s
           /\ IF ~broke /\ WhileCond(s, n)
              THEN /\ end' = e
                   /\ chunk' = PySlice(audio_data, s, e)
                   /\ emitted' = Append(emitted,
                                   [start |-> s, end |-> e, data |-> chunk'.data])
                   /\ gen_pc' = "yielded"
                   /\ pc' = "append"
              ELSE /\ gen_pc' = "done"
                   /\ pc' = "final"
                   /\ UNCHANGED <<end, chunk, emitted>>
    /\ UNCHANGED others
    /\ UNCHANGED <<empty_cache_calls, config, ncalls, audio_file, audio_data, batch_chunks,
                   all_transcriptions, exc, outcome, calls, prev>>

\* batch_chunks.append(chunk.copy()) and the test of the batch size
AppendChunk ==
    /\ pc = "append"
    /\ batch_chunks' = Append(batch_chunks, Copy(chunk))
    /\ pc' = IF BatchFull(batch_chunks', batch_size) THEN "batch" ELSE "iter"
    /\ UNCHANGED others
    /\ UNCHANGED <<empty_cache_calls, config, ncalls, audio_file, audio_data, genvars,
                   all_transcriptions, exc, outcome, emitted, calls, prev>>

\* transcribe_batch on a full buffer, extend, batch_chunks = [], empty_cache
TranscribeFullBatch ==
    /\ pc = "batch"
    /\ calls' = Append(calls, batch_chunks)
    /\ audio_data' = BackendWrites(audio_data, batch_chunks)
    /\ \/ /\ all_transcriptions' =
                ListExtend(all_transcriptions, transcribe_batch(batch_chunks))
          /\ batch_chunks' = ClearedBatchChunks
          /\ empty_cache_calls' = EmptyCache(empty_cache_calls)
          /\ pc' = "iter"
          /\ UNCHANGED exc
       \/ /\ exc' = "InferenceError"
          /\ pc' = "except"
          /\ UNCHANGED <<all_transcriptions, batch_chunks, empty_cache_calls>>
    /\ UNCHANGED others
    /\ UNCHANGED <<config, ncalls, audio_file, genvars, outcome,
                   emitted, prev>>

\* if batch_chunks: transcribe_batch on what is left, extend
TranscribeRemaining ==
    /\ pc = "final"
    /\ IF HasRemaining(batch_chunks)
       THEN /\ calls' = Append(calls, batch_chunks)
            /\ audio_data' = BackendWrites(audio_data, batch_chunks)
            /\ \/ /\ all_transcriptions' =
                        ListExtend(all_transcriptions, transcribe_batch(batch_chunks))
                  /\ pc' = "join"
                  /\ UNCHANGED exc
               \/ /\ exc' = "InferenceError"
                  /\ pc' = "except"
                  /\ UNCHANGED all_transcriptions
       ELSE /\ pc' = "join"
            /\ UNCHANGED <<calls, audio_data, all_transcriptions, exc>>
    /\ UNCHANGED others
    /\ UNCHANGED <<empty_cache_calls, config, ncalls, audio_file, genvars,
                   batch_chunks, outcome, emitted, prev>>

\* full_transcription = " ".join(all_transcriptions); return full_transcription
ReturnTranscription ==
    /\ pc = "join"
    /\ outcome' = Returned(StrJoin(SPACE, all_transcriptions))
    /\ pc' = "done"
    /\ UNCHANGED others
    /\ UNCHANGED <<empty_cache_calls, config, ncalls, audio_file, audio_data, genvars,
                   batch_chunks, all_transcriptions, exc, emitted, calls, prev>>

\* except Exception as e: logging.error()
ExceptClause ==
    /\ pc = "except"
    /\ outcome' = Raised(ExceptClauseRaises)
    /\ pc' = "done"
    /\ UNCHANGED others
    /\ UNCHANGED <<empty_cache_calls, config, ncalls, audio_file, audio_data, genvars,
                   batch_chunks, all_transcriptions, exc, emitted, calls, prev>>

Next ==
    \/ Call
    \/ LoadAudio
    \/ ChunkAudioNext
    \/ AppendChunk
    \/ TranscribeFullBatch
    \/ TranscribeRemaining
    \/ ReturnTranscription
    \/ ExceptClause

Spec == Init /\ [][Next]_vars

\* ======================================================================
\* VideoPlayer (datacollection/videoplay.py): the controlling thread calls
\* play, pause, resume and stop one after the other; every thread started on
\* _read_frames runs beside it. One action is one line of a method: threads
\* interleave between lines. The video opens (construction checked the path);
\* current_frame and the display window are left out.
notplayer == <<transcribervars, convert_video_to_images, split_video, process_video>>
fields == <<_state, cap, cap_pos, is_looping, _frame_thread, _stop_event>>
Threads == {MainThread} \cup Readers

\* threading.Thread.is_alive(): started and not yet terminated
Alive(t) == t \in Readers /\ tpc[t] \notin {"new", "done", "raised"}

\* self.cap is not None and self.cap.isOpened()
is_video_open == cap = "open"

NeedsNewThread_Always == TRUE
\* self._frame_thread is None or not self._frame_thread.is_alive()
NeedsNewThread == _frame_thread = NoThread \/ ~Alive(_frame_thread)

\* thread t moves on to position p
Goto(t, p) == tpc' = [tpc EXCEPT ![t] = p]

\* the method called by the controlling thread returns
Return(op) == Goto(MainThread, "idle") /\ last_op' = op

\* an exception leaves the method: a reader thread dies of it
Raise(t) ==
    IF t = MainThread THEN Return("raised")
    ELSE Goto(t, "raised") /\ UNCHANGED last_op

\* self._state = s
SetState(s, by) ==
    /\ _state' = s
    /\ trans' = [from |-> _state, to |-> s, by |-> by]

\* ---- play(loop)
CallPlay ==
    /\ tpc[MainThread] = "idle"
    /\ nthreads < MaxThreads
    /\ \E l \in BOOLEAN : loop' = l
    /\ Goto(MainThread, "play_85")
    /\ UNCHANGED <<video_frames, fields, nthreads, ended, last_op, trans>>
    /\ UNCHANGED notplayer

\* if self._state == PlayerState.PLAYING: return
Play85 ==
    /\ tpc[MainThread] = "play_85"
    /\ IF _state = "PLAYING" THEN Return("play")
       ELSE Goto(MainThread, "play_89") /\ UNCHANGED last_op
    /\ UNCHANGED <<video_frames, fields, loop, nthreads, ended, trans>>
    /\ UNCHANGED notplayer

\* self.is_looping = loop
Play89 ==
    /\ tpc[MainThread] = "play_89"
    /\ is_looping' = loop
    /\ Goto(MainThread, "play_91")
    /\ UNCHANGED <<video_frames, _state, cap, cap_pos, _frame_thread, _stop_event,
                   loop, nthreads, ended, last_op, trans>>
    /\ UNCHANGED notplayer

\* if self._state == PlayerState.STOPPED or not self.is_video_open():
\*     self._open_video()
Play91 ==
    /\ tpc[MainThread] = "play_91"
    /\ IF _state = "STOPPED" \/ ~is_video_open
       THEN cap' = "open" /\ cap_pos' = 0
       ELSE UNCHANGED <<cap, cap_pos>>
    /\ Goto(MainThread, "play_95")
    /\ UNCHANGED <<video_frames, _state, is_looping, _frame_thread, _stop_event,
                   loop, nthreads, ended, last_op, trans>>
    /\ UNCHANGED notplayer

\* self._state = PlayerState.PLAYING
Play95 ==
    /\ tpc[MainThread] = "play_95"
    /\ SetState("PLAYING", "play")
    /\ Goto(MainThread, "play_97")
    /\ UNCHANGED <<video_frames, cap, cap_pos, is_looping, _frame_thread,
                   _stop_event, loop, nthreads, ended, last_op>>
    /\ UNCHANGED notplayer

\* the end of play and of resume: a new event and a new started thread when
\* there is no thread or the thread is not alive
StartReader ==
    /\ tpc[MainThread] \in {"play_97", "resume_151"}
    /\ last_op' = IF tpc[MainThread] = "play_97" THEN "play" ELSE "resume"
    /\ IF NeedsNewThread
       THEN /\ _stop_event' = "clear"
            /\ _frame_thread' = nthreads + 1
            /\ nthreads' = nthreads + 1
            /\ tpc' = [tpc EXCEPT ![MainThread] = "idle",
                                  ![nthreads + 1] = "run_54"]
       ELSE /\ Goto(MainThread, "idle")
            /\ UNCHANGED <<_stop_event, _frame_thread, nthreads>>
    /\ UNCHANGED <<video_frames, _state, cap, cap_pos, is_looping, loop, ended,
                   trans>>
    /\ UNCHANGED notplayer

\* ---- pause()
CallPause ==
    /\ tpc[MainThread] = "idle"
    /\ Goto(MainThread, "pause_107")
    /\ UNCHANGED <<video_frames, fields, loop, nthreads, ended, last_op, trans>>
    /\ UNCHANGED notplayer

\* if self._state == PlayerState.PAUSED: return
Pause107 ==
    /\ tpc[MainThread] = "pause_107"
    /\ IF _state = "PAUSED" THEN Return("pause")
       ELSE Goto(MainThread, "pause_111") /\ UNCHANGED last_op
    /\ UNCHANGED <<video_frames, fields, loop, nthreads, ended, trans>>
    /\ UNCHANGED notplayer

\* if self._state == PlayerState.STOPPED: return
Pause111 ==
    /\ tpc[MainThread] = "pause_111"
    /\ IF _state = "STOPPED" THEN Return("pause")
       ELSE Goto(MainThread, "pause_115") /\ UNCHANGED last_op
    /\ UNCHANGED <<video_frames, fields, loop, nthreads, ended, trans>>
    /\ UNCHANGED notplayer

\* self._state = PlayerState.PAUSED
Pause115 ==
    /\ tpc[MainThread] = "pause_115"
    /\ SetState("PAUSED", "pause")
    /\ Return("pause")
    /\ UNCHANGED <<video_frames, cap, cap_pos, is_looping, _frame_thread,
                   _stop_event, loop, nthreads, ended>>
    /\ UNCHANGED notplayer

\* ---- resume()
CallResume ==
    /\ tpc[MainThread] = "idle"
    /\ nthreads < MaxThreads
    /\ Goto(MainThread, "resume_142")
    /\ UNCHANGED <<video_frames, fields, loop, nthreads, ended, last_op, trans>>
    /\ UNCHANGED notplayer

\* if self._state == PlayerState.PLAYING: return
Resume142 ==
    /\ tpc[MainThread] = "resume_142"
    /\ IF _state = "PLAYING" THEN Return("resume")
       ELSE Goto(MainThread, "resume_146") /\ UNCHANGED last_op
    /\ UNCHANGED <<video_frames, fields, loop, nthreads, ended, trans>>
    /\ UNCHANGED notplayer

\* if self._state == PlayerState.STOPPED: return
Resume146 ==
    /\ tpc[MainThread] = "resume_146"
    /\ IF _state = "STOPPED" THEN Return("resume")
       ELSE Goto(MainThread, "resume_150") /\ UNCHANGED last_op
    /\ UNCHANGED <<video_frames, fields, loop, nthreads, ended, trans>>
    /\ UNCHANGED notplayer

\* self._state = PlayerState.PLAYING
Resume150 ==
    /\ tpc[MainThread] = "resume_150"
    /\ SetState("PLAYING", "resume")
    /\ Goto(MainThread, "resume_151")
    /\ UNCHANGED <<video_frames, cap, cap_pos, is_looping, _frame_thread,
                   _stop_event, loop, nthreads, ended, last_op>>
    /\ UNCHANGED notplayer

\* ---- stop(), run by the controlling thread or by a reader (line 63)
CallStop ==
    /\ tpc[MainThread] = "idle"
    /\ Goto(MainThread, "stop_121")
    /\ UNCHANGED <<video_frames, fields, loop, nthreads, ended, last_op, trans>>
    /\ UNCHANGED notplayer

\* stop() returns: to the caller of the controlling thread, or to line 64 of
\* _read_frames, whose break ends the thread
StopReturn(t) ==
    IF t = MainThread THEN Return("stop")
    ELSE Goto(t, "done") /\ UNCHANGED last_op

\* if self._state == PlayerState.STOPPED: return
Stop121(t) ==
    /\ tpc[t] = "stop_121"
    /\ IF _state = "STOPPED" THEN StopReturn(t)
       ELSE Goto(t, "stop_126") /\ UNCHANGED last_op
    /\ UNCHANGED <<video_frames, fields, loop, nthreads, ended, trans>>
    /\ UNCHANGED notplayer

\* self._state = PlayerState.STOPPED
Stop126(t) ==
    /\ tpc[t] = "stop_126"
    /\ SetState("STOPPED", IF t = MainThread THEN "stop" ELSE "end_of_video")
    /\ Goto(t, "stop_127")
    /\ UNCHANGED <<video_frames, cap, cap_pos, is_looping, _frame_thread,
                   _stop_event, loop, nthreads, ended, last_op>>
    /\ UNCHANGED notplayer

\* if self._stop_event is not None: self._stop_event.set()
Stop127(t) ==
    /\ tpc[t] = "stop_127"
    /\ _stop_event' = IF _stop_event = "None" THEN "None" ELSE "set"
    /\ Goto(t, "stop_129")
    /\ UNCHANGED <<video_frames, _state, cap, cap_pos, is_looping, _frame_thread,
                   loop, nthreads, ended, last_op, trans>>
    /\ UNCHANGED notplayer

\* if self._frame_thread is not None:
Stop129(t) ==
    /\ tpc[t] = "stop_129"
    /\ Goto(t, IF _frame_thread = NoThread THEN "release_176" ELSE "stop_130")
    /\ UNCHANGED <<video_frames, fields, loop, nthreads, ended, last_op, trans>>
    /\ UNCHANGED notplayer

\* self._frame_thread.join(): Thread.join raises RuntimeError("cannot join
\* current thread") when the caller is the thread itself, and otherwise
\* returns once the thread has terminated
Stop130(t) ==
    /\ tpc[t] = "stop_130"
    /\ IF _frame_thread \in {t, NoThread} THEN Raise(t)
       ELSE /\ ~Alive(_frame_thread)
            /\ Goto(t, "stop_131")
            /\ UNCHANGED last_op
    /\ UNCHANGED <<video_frames, fields, loop, nthreads, ended, trans>>
    /\ UNCHANGED notplayer

\* self._frame_thread = None
Stop131(t) ==
    /\ tpc[t] = "stop_131"
    /\ _frame_thread' = NoThread
    /\ Goto(t, "stop_132")
    /\ UNCHANGED <<video_frames, _state, cap, cap_pos, is_looping, _stop_event,
                   loop, nthreads, ended, last_op, trans>>
    /\ UNCHANGED notplayer

\* self._stop_event = None
Stop132(t) ==
    /\ tpc[t] = "stop_132"
    /\ _stop_event' = "None"
    /\ Goto(t, "release_176")
    /\ UNCHANGED <<video_frames, _state, cap, cap_pos, is_looping, _frame_thread,
                   loop, nthreads, ended, last_op, trans>>
    /\ UNCHANGED notplayer

\* _release_resources: if self.cap is not None and self.cap.isOpened():
\*     self.cap.release()
Release176(t) ==
    /\ tpc[t] = "release_176"
    /\ IF is_video_open
       THEN cap' = "released" /\ Goto(t, "release_178") /\ UNCHANGED last_op
       ELSE StopReturn(t) /\ UNCHANGED cap
    /\ UNCHANGED <<video_frames, _state, cap_pos, is_looping, _frame_thread,
                   _stop_event, loop, nthreads, ended, trans>>
    /\ UNCHANGED notplayer

\* self.cap = None, and stop() returns
Release178(t) ==
    /\ tpc[t] = "release_178"
    /\ cap' = "None"
    /\ StopReturn(t)
    /\ UNCHANGED <<video_frames, _state, cap_pos, is_looping, _frame_thread,
                   _stop_event, loop, nthreads, ended, trans>>
    /\ UNCHANGED notplayer

\* ---- _read_frames, run by a reader thread
\* if not self.cap: return
Run54(t) ==
    /\ tpc[t] = "run_54"
    /\ Goto(t, IF cap = "None" THEN "done" ELSE "while_58")
    /\ UNCHANGED <<video_frames, fields, loop, nthreads, ended, last_op, trans>>
    /\ UNCHANGED notplayer

\* while not self._stop_event.is_set(): (AttributeError when the event is None)
While58(t) ==
    /\ tpc[t] = "while_58"
    /\ Goto(t, CASE _stop_event = "None" -> "raised"
                 [] _stop_event = "set" -> "done"
                 [] OTHER -> "if_59")
    /\ UNCHANGED <<video_frames, fields, loop, nthreads, ended, last_op, trans>>
    /\ UNCHANGED notplayer

\* if self._state == PlayerState.PLAYING: ... elif PAUSED: show the frame again
If59(t) ==
    /\ tpc[t] = "if_59"
    /\ Goto(t, IF _state = "PLAYING" THEN "read_60" ELSE "while_58")
    /\ UNCHANGED <<video_frames, fields, loop, nthreads, ended, last_op, trans>>
    /\ UNCHANGED notplayer

\* ret, frame = self.cap.read(); if not ret: ...; else show the frame
Read60(t) ==
    /\ tpc[t] = "read_60"
    /\ IF cap = "None"
       THEN Goto(t, "raised") /\ UNCHANGED cap_pos
       ELSE IF is_video_open /\ cap_pos < video_frames
            THEN cap_pos' = cap_pos + 1 /\ Goto(t, "while_58")
            ELSE Goto(t, "if_62") /\ UNCHANGED cap_pos
    /\ UNCHANGED <<video_frames, _state, cap, is_looping, _frame_thread,
                   _stop_event, loop, nthreads, ended, last_op, trans>>
    /\ UNCHANGED notplayer

\* if not self.is_looping: self.stop(); break
\* else: self.cap.set(cv2.CAP_PROP_POS_FRAMES, 0); continue
If62(t) ==
    /\ tpc[t] = "if_62"
    /\ IF ~is_looping
       THEN /\ ended' = ended \cup {t}
            /\ Goto(t, "stop_121")
            /\ UNCHANGED cap_pos
       ELSE /\ IF cap = "None"
               THEN Goto(t, "raised") /\ UNCHANGED cap_pos
               ELSE cap_pos' = 0 /\ Goto(t, "while_58")
            /\ UNCHANGED ended
    /\ UNCHANGED <<video_frames, _state, cap, is_looping, _frame_thread,
                   _stop_event, loop, nthreads, last_op, trans>>
    /\ UNCHANGED notplayer

\* a player constructed on a video of 1..MaxFrames frames
PlayerInit ==
    /\ video_frames \in 1..MaxFrames
    /\ PlayerConstructed
    /\ NoTranscriber
    /\ convert_video_to_images = NotCalled
    /\ split_video = NotCalled
    /\ process_video = NotCalled

PlayerNext ==
    \/ CallPlay \/ Play85 \/ Play89 \/ Play91 \/ Play95 \/ StartReader
    \/ CallPause \/ Pause107 \/ Pause111 \/ Pause115
    \/ CallResume \/ Resume142 \/ Resume146 \/ Resume150
    \/ CallStop
    \/ \E t \in Threads :
           \/ Stop121(t) \/ Stop126(t) \/ Stop127(t) \/ Stop129(t)
           \/ Stop130(t) \/ Stop131(t) \/ Stop132(t)
           \/ Release176(t) \/ Release178(t)
    \/ \E t \in Readers :
           \/ Run54(t) \/ While58(t) \/ If59(t) \/ Read60(t) \/ If62(t)

PlayerSpec == PlayerInit /\ [][PlayerNext]_vars

\* ======================================================================
\* convert_video_to_images (datacollection/frame_from_video.py): one call.
\* The record holds the arguments and what the video file answers
\* (video_exists, max_length, reported_frames = CAP_PROP_FRAME_COUNT,
\* readable_frames = reads that return a frame, fps = CAP_PROP_FPS), the
\* locals, the images written (frame index and image number) and the outcome.
\* The capture opens and imwrite succeeds.
notframes == <<transcribervars, playervars, split_video, process_video>>

\* the frame rates a container reports: 0 when it holds none
FrameRates == {0, 25}

\* math.ceil(total_frames / max_length)
FrameInterval(total_frames, max_length) ==
    (total_frames + max_length - 1) \div max_length

FramesInit ==
    /\ \E e \in BOOLEAN, m \in 0..MaxMaxLength, tf \in 0..MaxTotalFrames,
          rf \in 0..MaxTotalFrames, f \in FrameRates :
           convert_video_to_images =
               [pc |-> "check", video_exists |-> e, max_length |-> m,
                reported_frames |-> tf, readable_frames |-> rf, fps |-> f,
                total_frames |-> 0, frame_interval |-> 0, frame_count |-> 0,
                image_count |-> 0, saved |-> <<>>, released |-> FALSE,
                outcome |-> "none"]
    /\ NoTranscriber
    /\ NoPlayer
    /\ split_video = NotCalled
    /\ process_video = NotCalled

\* the checks of the arguments: FileNotFoundError, ValueError
CheckArguments ==
    LET c == convert_video_to_images
    IN  /\ c.pc = "check"
        /\ convert_video_to_images' =
               IF ~c.video_exists
               THEN [c EXCEPT !.pc = "done", !.outcome = "FileNotFoundError"]
               ELSE IF c.max_length <= 0
               THEN [c EXCEPT !.pc = "done", !.outcome = "ValueError"]
               ELSE [c EXCEPT !.pc = "open"]
        /\ UNCHANGED notframes

\* total_frames, fps, duration = total_frames / fps (ZeroDivisionError when
\* fps is 0, turned into RuntimeError by "except Exception"), the test of
\* total_frames == 0, frame_interval and the two counters
OpenVideo ==
    LET c == convert_video_to_images
    IN  /\ c.pc = "open"
        /\ convert_video_to_images' =
               IF c.fps = 0 \/ c.reported_frames = 0
               THEN [c EXCEPT !.pc = "done", !.outcome = "RuntimeError",
                              !.total_frames = c.reported_frames]
               ELSE [c EXCEPT !.pc = "read",
                              !.total_frames = c.reported_frames,
                              !.frame_interval =
                                  FrameInterval(c.reported_frames, c.max_length),
                              !.frame_count = 0,
                              !.image_count = 0]
        /\ UNCHANGED notframes

\* one turn of the while loop: read, break when there is no frame, save the
\* frame when frame_count % frame_interval == 0, count it
ReadFrame ==
    LET c == convert_video_to_images
    IN  /\ c.pc = "read"
        /\ convert_video_to_images' =
               IF c.frame_count >= c.readable_frames
               THEN [c EXCEPT !.pc = "release"]
               ELSE IF c.frame_count % c.frame_interval = 0
               THEN [c EXCEPT !.saved = Append(@, [frame |-> c.frame_count,
                                                   image |-> c.image_count]),
                              !.image_count = @ + 1,
                              !.frame_count = @ + 1]
               ELSE [c EXCEPT !.frame_count = @ + 1]
        /\ UNCHANGED notframes

\* cap.release() and the return
ReleaseCapture ==
    LET c == convert_video_to_images
    IN  /\ c.pc = "release"
        /\ convert_video_to_images' =
               [c EXCEPT !.pc = "done", !.released = TRUE, !.outcome = "returned"]
        /\ UNCHANGED notframes

FramesNext == CheckArguments \/ OpenVideo \/ ReadFrame \/ ReleaseCapture

FramesSpec == FramesInit /\ [][FramesNext]_vars

\* ======================================================================
\* split_video (datacollection/convertintoclip.py): one call. Times are whole
\* seconds; a quotient by num_segments is kept exact as a fraction. The
\* record holds the arguments, what the environment answers (video_exists,
\* video_duration and ffprobe_ok for get_video_duration, ffmpeg_ok for the
\* commands), the locals, the commands handed to the executor and the outcome.
notsplit == <<transcribervars, playervars, convert_video_to_images, process_video>>

\* end_time = None
NoEndTime == 0 - 1

\* the exact quotient num / den
Frac(num, den) == [num |-> num, den |-> den]

\* x or y: y when x is None or 0 (0.0 is falsy), else x
PyOr(x, y) == IF x = NoEndTime \/ x = 0 THEN y ELSE x

SplitInit ==
    /\ \E e \in BOOLEAN, n \in 0..MaxSegments, s \in 0..MaxTime,
          en \in {NoEndTime} \cup (0..MaxTime), d \in 1..MaxTime,
          p \in BOOLEAN, f \in BOOLEAN :
           split_video =
               [pc |-> "check", video_exists |-> e, num_segments |-> n,
                start_time |-> s, end_time |-> en, video_duration |-> d,
                ffprobe_ok |-> p, ffmpeg_ok |-> f,
                total_duration |-> 0, segment_duration |-> Frac(0, 1), i |-> 0,
                commands |-> <<>>, submitted |-> <<>>, outcome |-> "none"]
    /\ NoTranscriber
    /\ NoPlayer
    /\ convert_video_to_images = NotCalled
    /\ process_video = NotCalled

\* the checks of the arguments: FileNotFoundError, ValueError
SplitCheckArguments ==
    LET c == split_video
    IN  /\ c.pc = "check"
        /\ split_video' =
               IF ~c.video_exists
               THEN [c EXCEPT !.pc = "done", !.outcome = "FileNotFoundError"]
               ELSE IF c.num_segments <= 0
               THEN [c EXCEPT !.pc = "done", !.outcome = "ValueError"]
               ELSE [c EXCEPT !.pc = "duration"]
        /\ UNCHANGED notsplit

\* total_duration = end_time or get_video_duration(video_path)
\* total_duration -= start_time
\* segment_duration = total_duration / num_segments
SplitDuration ==
    LET c == split_video
        asks_ffprobe == PyOr(c.end_time, c.video_duration) # c.end_time
        total == PyOr(c.end_time, c.video_duration) - c.start_time
    IN  /\ c.pc = "duration"
        /\ split_video' =
               IF asks_ffprobe /\ ~c.ffprobe_ok
               THEN [c EXCEPT !.pc = "done", !.outcome = "RuntimeError"]
               ELSE [c EXCEPT !.pc = "build",
                              !.total_duration = total,
                              !.segment_duration = Frac(total, c.num_segments),
                              !.i = 0]
        /\ UNCHANGED notsplit

\* one turn of "for i in range(num_segments)": the command with
\* -ss start_time + i * segment_duration and -t segment_duration
BuildCommand ==
    LET c == split_video
        current_start ==
            Frac(c.start_time * c.segment_duration.den
                     + c.i * c.segment_duration.num, c.segment_duration.den)
    IN  /\ c.pc = "build"
        /\ split_video' =
               IF c.i < c.num_segments
               THEN [c EXCEPT !.commands =
                                  Append(@, [ss |-> current_start,
                                             t |-> c.segment_duration,
                                             segment |-> c.i + 1]),
                              !.i = @ + 1]
               ELSE [c EXCEPT !.pc = "run"]
        /\ UNCHANGED notsplit

\* every command is submitted to the executor; a failing ffmpeg raises
\* CalledProcessError, re-raised as RuntimeError
RunCommands ==
    LET c == split_video
    IN  /\ c.pc = "run"
        /\ split_video' =
               [c EXCEPT !.pc = "done",
                         !.submitted = c.commands,
                         !.outcome = IF c.ffmpeg_ok THEN "returned"
                                     ELSE "RuntimeError"]
        /\ UNCHANGED notsplit

SplitNext == SplitCheckArguments \/ SplitDuration \/ BuildCommand \/ RunCommands

SplitSpec == SplitInit /\ [][SplitNext]_vars

\* ======================================================================
\* process_video (datacollection/videoformatingconversion.py): one call.
\* The record holds what the arguments and the environment are (path: what
\* input_path is; ffprobe, ffmpeg: how the two commands end; args_ok: whether
\* output_path and options have the types _build_ffmpeg_command needs;
\* makedirs_ok), the exception being handled, the external steps taken in
\* order, and the outcome.
notprocess == <<transcribervars, playervars, convert_video_to_images, split_video>>

Paths == {"video", "missing", "not_video", "not_a_path"}
FfprobeResults == {"zero", "nonzero", "raises"}
FfmpegResults == {"zero", "input_error", "nonzero", "raises"}

\* return <bool>, <message>
ReturnedPair(ok, message) ==
    [status |-> "returned", ok |-> ok, message |-> message]

Catches_Listed(kind) == kind \in {"FileNotFoundError", "CalledProcessError", "ValueError"}
\* the except clauses: FileNotFoundError, CalledProcessError, ValueError and
\* Exception, which every exception raised in the try block derives from
Catches(kind) ==
    \/ kind \in {"FileNotFoundError", "CalledProcessError", "ValueError"}
    \/ kind \in {"TypeError", "OSError"}

\* the message of the clause that catches an exception of this kind
HandlerMessage(kind) ==
    CASE kind = "FileNotFoundError" -> "Error: "
      [] kind = "CalledProcessError" -> "Error during ffmpeg execution: "
      [] kind = "ValueError" -> "Error: "
      [] OTHER -> "An unexpected error occurred: "

ProcessInit ==
    /\ \E p \in Paths, fp \in FfprobeResults, a \in BOOLEAN, mk \in BOOLEAN,
          fm \in FfmpegResults :
           process_video =
               [pc |-> "validate", path |-> p, ffprobe |-> fp, args_ok |-> a,
                makedirs_ok |-> mk, ffmpeg |-> fm, exc |-> "none",
                steps |-> <<>>, outcome |-> [status |-> "none"]]
    /\ NoTranscriber
    /\ NoPlayer
    /\ convert_video_to_images = NotCalled
    /\ split_video = NotCalled

\* an exception raised in the try block goes to the except clauses
ToExcept(c, kind) == [c EXCEPT !.pc = "except", !.exc = kind]

\* validate_video_path(input_path)
ValidatePath ==
    LET c == [process_video EXCEPT !.steps = Append(@, "validate")]
    IN  /\ process_video.pc = "validate"
        /\ process_video' =
               CASE c.path = "missing" -> ToExcept(c, "FileNotFoundError")
                 [] c.path = "not_video" -> ToExcept(c, "ValueError")
                 [] c.path = "not_a_path" -> ToExcept(c, "TypeError")
                 [] OTHER -> [c EXCEPT !.pc = "ffprobe"]
        /\ UNCHANGED notprocess

\* is_readable, read_message = _is_ffmpeg_input_readable(input_path), which
\* catches its own exceptions; if not is_readable: return False, read_message
CheckReadable ==
    LET c == [process_video EXCEPT !.steps = Append(@, "ffprobe")]
    IN  /\ process_video.pc = "ffprobe"
        /\ process_video' =
               CASE c.ffprobe = "zero" -> [c EXCEPT !.pc = "build"]
                 [] c.ffprobe = "nonzero" ->
                        [c EXCEPT !.pc = "done",
                                  !.outcome = ReturnedPair(FALSE,
                                      "ffprobe failed to read the input file.")]
                 [] OTHER ->
                        [c EXCEPT !.pc = "done",
                                  !.outcome = ReturnedPair(FALSE,
                                      "An unexpected error occurred while running ffprobe: ")]
        /\ UNCHANGED notprocess

\* _build_ffmpeg_command(input_path, output_path, options) and the creation
\* of the output directory
BuildAndMakeDirs ==
    LET c == process_video
    IN  /\ c.pc = "build"
        /\ process_video' =
               IF ~c.args_ok THEN ToExcept(c, "TypeError")
               ELSE IF ~c.makedirs_ok THEN ToExcept(c, "OSError")
               ELSE [c EXCEPT !.pc = "ffmpeg"]
        /\ UNCHANGED notprocess

\* result = subprocess.run(ffmpeg_command, ...) and the test of its returncode
RunFfmpeg ==
    LET c == [process_video EXCEPT !.steps = Append(@, "ffmpeg")]
    IN  /\ process_video.pc = "ffmpeg"
        /\ process_video' =
               CASE c.ffmpeg = "zero" ->
                        [c EXCEPT !.pc = "done",
                                  !.outcome = ReturnedPair(TRUE,
                                      "Video processing successful.")]
                 [] c.ffmpeg = "input_error" ->
                        [c EXCEPT !.pc = "done",
                                  !.outcome = ReturnedPair(FALSE,
                                      "FFmpeg could not open the input file.")]
                 [] c.ffmpeg = "nonzero" ->
                        [c EXCEPT !.pc = "done",
                                  !.outcome = ReturnedPair(FALSE,
                                      "FFmpeg command failed with error code ")]
                 [] OTHER -> ToExcept(c, "OSError")
        /\ UNCHANGED notprocess

\* the except clauses of process_video
HandleException ==
    LET c == process_video
    IN  /\ c.pc = "except"
        /\ process_video' =
               [c EXCEPT !.pc = "done",
                         !.outcome =
                             IF Catches(c.exc)
                             THEN ReturnedPair(FALSE, HandlerMessage(c.exc))
                             ELSE [status |-> "raised", ok |-> FALSE,
                                   message |-> c.exc]]
        /\ UNCHANGED notprocess

ProcessNext ==
    ValidatePath \/ CheckReadable \/ BuildAndMakeDirs \/ RunFfmpeg \/ HandleException

ProcessSpec == ProcessInit /\ [][ProcessNext]_vars

\* ------------------------------------------------- vocabulary of the claims
CLS == ToSamples(chunk_length_seconds)
OVS == ToSamples(overlap_seconds)
Stride == CLS - OVS
ValidConfig == CLS > OVS /\ OVS >= 0
W == audio_data
N == Len(emitted)
GenExhausted == gen_pc = "done"
Finished == pc = "done"
Succeeded == Finished /\ outcome.status = "returned"
LastCall == calls[Len(calls)]

\* the window of W between two 0-based offsets, written out index by index
Window(lo, hi) == [i \in 1..(hi - lo) |-> W[lo + i]]

\* text.split(sep), left to right: the pieces between the separators
RECURSIVE SplitFrom(_, _, _, _)
SplitFrom(text, sep, i, piece) ==
    IF i > Len(text) THEN <<piece>>
    ELSE IF text[i] = sep
         THEN <<piece>> \o SplitFrom(text, sep, i + 1, <<>>)
         ELSE SplitFrom(text, sep, i + 1, Append(piece, text[i]))
Split(text, sep) == SplitFrom(text, sep, 1, <<>>)

\* C1: under a valid configuration the first chunk starts at offset 0, every
\* chunk but the last ends overlap_samples after the start of its successor,
\* each chunk is the window of W it names, and once the generator is
\* exhausted the last chunk ends at len(W) and every sample of W lies in a chunk.
C1_ChunksCoverWaveform ==
    ValidConfig =>
        /\ (N >= 1 => emitted[1].start = 0)
        /\ \A i \in 1..(N - 1) : emitted[i].end - OVS = emitted[i + 1].start
        /\ \A i \in 1..N :
               /\ 0 <= emitted[i].start /\ emitted[i].start < emitted[i].end
               /\ emitted[i].end <= Len(W)
               /\ emitted[i].data = Window(emitted[i].start, emitted[i].end)
        /\ GenExhausted =>
               /\ (Len(W) >= 1 => N >= 1 /\ emitted[N].end = Len(W))
               /\ \A k \in 0..(Len(W) - 1) :
                      \E i \in 1..N : emitted[i].start <= k /\ k < emitted[i].end

\* a waveform cut into at least three overlapping chunks, the last one short
C1_Witness ==
    /\ ValidConfig /\ GenExhausted /\ OVS >= 1
    /\ N >= 3
    /\ emitted[N].end - emitted[N].start < CLS

\* the chunk count the specification gives for a waveform of n samples
ExpectedCount(n) ==
    IF n = 0 THEN 0
    ELSE IF n <= CLS THEN 1
    ELSE CeilDiv(n - OVS, Stride)

\* C2: under a valid configuration the exhausted generator has yielded 0
\* chunks for an empty waveform, 1 for a waveform of at most
\* chunk_length_samples, and ceil((len(W) - overlap_samples) / stride) otherwise.
C2_ChunkCount ==
    (ValidConfig /\ GenExhausted) => N = ExpectedCount(Len(W))

\* a waveform longer than a chunk whose count is rounded up
C2_Witness ==
    /\ ValidConfig /\ GenExhausted
    /\ Len(W) > CLS /\ OVS >= 1
    /\ (Len(W) - OVS) % Stride # 0
    /\ N >= 2

\* C3: a successful run over N >= 1 chunks with batch_size B >= 1 has made
\* ceil(N / B) calls of transcribe_batch, every call but the last with B
\* chunks and the last with N mod B chunks (B when N mod B is 0); and at
\* any point of any run, failed ones included, no more than ceil(N / B)
\* calls have been made and each call made before the chunk sequence was
\* exhausted received B chunks.
C3_BatchGrouping ==
    batch_size >= 1 =>
        /\ (Succeeded /\ N >= 1) =>
               /\ Len(calls) = CeilDiv(N, batch_size)
               /\ \A i \in 1..(Len(calls) - 1) : Len(calls[i]) = batch_size
               /\ Len(LastCall) = IF N % batch_size = 0 THEN batch_size
                                  ELSE N % batch_size
        /\ Len(calls) <= CeilDiv(N, batch_size)
        /\ \A i \in 1..Len(calls) :
               \/ Len(calls[i]) = batch_size
               \/ i = Len(calls) /\ GenExhausted /\ Len(calls[i]) = N % batch_size

\* full batches followed by an undersized last batch
C3_Witness ==
    /\ Succeeded /\ batch_size >= 2
    /\ Len(calls) >= 2
    /\ N % batch_size # 0

\* C4: the string a successful run returns splits at its spaces into exactly
\* the fragments of chunk 0, chunk 1, ..., chunk N-1, in that order (and is
\* empty when there is no chunk).
C4_TranscriptInChunkOrder ==
    Succeeded =>
        IF N = 0 THEN outcome.value = <<>>
        ELSE Split(outcome.value, SPACE) = [i \in 1..N |-> Render(emitted[i].data)]

\* three or more fragments that went through two or more batches
C4_Witness ==
    /\ Succeeded /\ N >= 3 /\ Len(calls) >= 2
    /\ Len(outcome.value) > N

\* C5: when the backend fails in a batch under a valid configuration,
\* transcribe_audio raises an error of the kind of the backend failure and
\* returns no transcript.
C5_InferenceErrorPropagates ==
    (ValidConfig /\ batch_size >= 1 /\ Finished /\ exc = "InferenceError") =>
        /\ outcome.status = "raised"
        /\ outcome.kind = "InferenceError"

\* C6: when load_audio fails under a valid configuration, transcribe_audio
\* raises that same kind of error, no chunk is produced and no inference call
\* is made.
C6_AudioLoadErrorPropagates ==
    (ValidConfig /\ batch_size >= 1 /\ Finished /\ exc = "AudioLoadError") =>
        /\ outcome.status = "raised"
        /\ outcome.kind = "AudioLoadError"
        /\ emitted = <<>>
        /\ calls = <<>>

\* C7: under a configuration with overlap_seconds >= chunk_length_seconds no
\* chunk is emitted and no inference call is made, and a call that got as far
\* as chunk_audio ends with ConfigurationError.
C7_OverlapNotBelowChunkRejected ==
    overlap_seconds >= chunk_length_seconds =>
        /\ emitted = <<>>
        /\ calls = <<>>
        /\ (Finished /\ exc # "AudioLoadError") => outcome.kind = "ConfigurationError"

\* C8: under a configuration with batch_size <= 0 no batch is submitted to
\* the backend.
C8_NonPositiveBatchRejected ==
    batch_size <= 0 => calls = <<>>

\* C9: the chunk sequence of a finite waveform is finite and the run ends. In
\* the form a finite run decides: every resumption of the generator moves
\* start forward, so that it yields no more chunks than W has samples.
C9_ChunkSequenceFinite ==
    (pc \in {"iter", "append", "batch", "final", "join"}) => N <= Len(W)

\* C10: two successful calls in a row on the same file submit the same
\* batches in the same order and return the same transcript.
C10_SecondCallIdentical ==
    (/\ Succeeded
     /\ ncalls >= 2
     /\ prev.outcome.status = "returned"
     /\ prev.file = audio_file) =>
        /\ outcome.value = prev.outcome.value
        /\ calls = prev.calls

\* the second of two successful calls on a file that needed several batches,
\* the last of them partial
C10_Witness ==
    /\ Succeeded /\ ncalls >= 2
    /\ prev.outcome.status = "returned" /\ prev.file = audio_file
    /\ Len(calls) >= 2
    /\ batch_size >= 2 /\ N % batch_size # 0

\* ---------------------------------------------------------------------------
GenStarted == gen_pc \in {"yielded", "done"}

\* the samples of a sequence of chunks or windows, end to end
RECURSIVE ConcatData(_)
ConcatData(cs) ==
    IF cs = <<>> THEN <<>> ELSE cs[1].data \o ConcatData(Tail(cs))

\* the chunks of a sequence of batches, in call order
RECURSIVE Flatten(_)
Flatten(bs) == IF bs = <<>> THEN <<>> ELSE bs[1] \o Flatten(Tail(bs))

DataOf(cs) == [i \in 1..Len(cs) |-> cs[i].data]
SubmittedCount == Len(Flatten(calls))

\* C11: for an empty waveform the generator yields no chunk and no error
\* arises: it is exhausted at its first resumption.
C11_EmptyWaveformNoChunks ==
    (gen_pc # "none" /\ Len(W) = 0) =>
        /\ N = 0
        /\ gen_pc # "yielded"
        /\ exc = "none"
        /\ outcome.status # "raised"

\* the generator of an empty waveform, exhausted
C11_Witness ==
    GenExhausted /\ Len(W) = 0 /\ pc = "final"

\* C12: a non-empty waveform of at most chunk_length_samples samples yields
\* exactly one chunk, and that chunk is the whole waveform.
C12_ShortWaveformOneChunk ==
    (GenStarted /\ Len(W) >= 1 /\ Len(W) <= CLS) =>
        /\ N = 1
        /\ emitted[1].start = 0
        /\ emitted[1].end = Len(W)
        /\ emitted[1].data = W

\* a waveform strictly shorter than the chunk length, generator exhausted
C12_Witness ==
    GenExhausted /\ Len(W) >= 2 /\ Len(W) < CLS /\ N = 1

\* C13: with no overlap (overlap_seconds = 0, or any overlap below one
\* sample) each chunk starts where its predecessor ends, no sample index
\* lies in two chunks, and once the generator is exhausted every sample
\* index lies in exactly one chunk and the chunks end to end are W.
C13_ZeroOverlapPartition ==
    OVS = 0 =>
        /\ \A i \in 1..(N - 1) : emitted[i + 1].start = emitted[i].end
        /\ \A k \in 0..(Len(W) - 1) :
               Cardinality({i \in 1..N :
                   emitted[i].start <= k /\ k < emitted[i].end}) <= 1
        /\ GenExhausted =>
               /\ \A k \in 0..(Len(W) - 1) :
                      Cardinality({i \in 1..N :
                          emitted[i].start <= k /\ k < emitted[i].end}) = 1
               /\ ConcatData(emitted) = W

\* overlap_seconds = 0 and three or more chunks, the last one short
C13_Witness ==
    /\ overlap_seconds = 0 /\ GenExhausted /\ N >= 3
    /\ emitted[N].end - emitted[N].start < CLS

\* C14: 70 samples with chunk_length_samples = 30 and overlap_samples = 10
\* are cut into the chunks [0:30], [20:50], [40:70], in that order.
C14_ScenarioChunks ==
    (CLS = 30 /\ OVS = 10 /\ gen_pc # "none" /\ Len(W) = 70) =>
        LET cuts == << <<0, 30>>, <<20, 50>>, <<40, 70>> >>
        IN  /\ N <= 3
            /\ \A i \in 1..N :
                   /\ <<emitted[i].start, emitted[i].end>> = cuts[i]
                   /\ emitted[i].data = Window(cuts[i][1], cuts[i][2])
            /\ GenExhausted => N = 3

\* the scenario's generator, exhausted after its third chunk
C14_Witness ==
    /\ CLS = 30 /\ OVS = 10 /\ Len(W) = 70
    /\ GenExhausted /\ N = 3 /\ emitted[3].end = 70

\* C15: a successful run over three chunks with batch_size = 2 has made two
\* inference calls, the first with chunks 0 and 1, the second with chunk 2,
\* and returns the three fragments with one space between neighbours.
C15_ScenarioBatches ==
    (Succeeded /\ batch_size = 2 /\ N = 3) =>
        /\ Len(calls) = 2
        /\ DataOf(calls[1]) = <<emitted[1].data, emitted[2].data>>
        /\ DataOf(calls[2]) = <<emitted[3].data>>
        /\ outcome.value = Render(emitted[1].data) \o <<SPACE>>
                             \o Render(emitted[2].data) \o <<SPACE>>
                             \o Render(emitted[3].data)

\* the scenario's three chunks transcribed with batch_size = 2
C15_Witness ==
    /\ Succeeded /\ batch_size = 2 /\ N = 3
    /\ Len(W) = 70 /\ CLS = 30 /\ OVS = 10

\* C16: the chunks handed to transcribe_batch so far, call after call, are
\* the first chunks the generator yielded, in emission order, and in a
\* successful run they are all of them.
C16_EveryChunkSubmittedOnce ==
    /\ SubmittedCount <= N
    /\ DataOf(Flatten(calls)) = [i \in 1..SubmittedCount |-> emitted[i].data]
    /\ Succeeded => SubmittedCount = N

\* a successful run whose last batch was partial
C16_Witness ==
    /\ Succeeded /\ batch_size >= 2 /\ Len(calls) >= 2
    /\ Len(LastCall) < batch_size

\* C17: with batch_size >= 1 the buffer never holds more than batch_size
\* chunks, every transcribe_batch call received between 1 and batch_size
\* chunks, and the buffer holds exactly the chunks yielded since the last
\* call (none right after a call on a full batch).
C17_BufferBounded ==
    batch_size >= 1 =>
        /\ Len(batch_chunks) <= batch_size
        /\ \A i \in 1..Len(calls) :
               1 <= Len(calls[i]) /\ Len(calls[i]) <= batch_size
        /\ pc \in {"iter", "batch", "final"} =>
               Len(batch_chunks) = N - SubmittedCount
        /\ pc = "iter" => Len(batch_chunks) < batch_size

\* back in the loop with an empty buffer after a call on a full batch
C17_Witness ==
    /\ batch_size >= 2 /\ pc = "iter" /\ Len(calls) >= 1
    /\ batch_chunks = <<>> /\ Len(W) > N

\* C18: chunk k (0-based) starts at k * stride and ends at
\* min(k * stride + chunk_length_samples, len(W)); no chunk but the last ends
\* at len(W); under a valid configuration every chunk but the last has
\* chunk_length_samples samples.
C18_ChunkOffsets ==
    /\ \A k \in 1..N :
           /\ emitted[k].start = (k - 1) * Stride
           /\ emitted[k].end = Min((k - 1) * Stride + CLS, Len(W))
    /\ \A k \in 1..(N - 1) : emitted[k].end # Len(W)
    /\ ValidConfig => \A k \in 1..(N - 1) : Len(emitted[k].data) = CLS

\* three or more chunks with an overlap, the last one short
C18_Witness ==
    /\ ValidConfig /\ OVS >= 1 /\ GenExhausted /\ N >= 3
    /\ Len(emitted[N].data) < CLS

\* the integer nearest to num / den
RoundNearest(num, den) == (2 * num + den) \div (2 * den)

\* C19: chunk_length_samples and overlap_samples are the products of the
\* second values with the sample rate, rounded to the nearest integer.
C19_SamplesRounded ==
    GenStarted =>
        /\ chunk_length_samples =
               RoundNearest(chunk_length_seconds * SAMPLE_RATE, SecondsDenominator)
        /\ overlap_samples =
               RoundNearest(overlap_seconds * SAMPLE_RATE, SecondsDenominator)

\* C20: when a call of transcribe_batch is about to start, the fragments of
\* every chunk submitted before are in the fragment list, the buffer holds
\* only the chunks yielded since the previous call, and empty_cache has run
\* once for every previous call.
C20_BatchesOneAtATime ==
    (pc = "batch" \/ (pc = "final" /\ batch_chunks # <<>>)) =>
        /\ all_transcriptions =
               [i \in 1..SubmittedCount |-> Render(emitted[i].data)]
        /\ DataOf(batch_chunks) =
               [i \in 1..(N - SubmittedCount) |-> emitted[SubmittedCount + i].data]
        /\ empty_cache_calls = Len(calls)

\* a second full batch about to be submitted
C20_Witness ==
    /\ pc = "batch" /\ Len(calls) >= 1 /\ batch_size >= 2
    /\ empty_cache_calls >= 1

\* C21: chunks are made one at a time. While a chunk waits to be placed in
\* the buffer it is the only yielded chunk that is neither in the buffer nor
\* submitted, the buffer is not full, and every batch that filled up before
\* has been through its inference call and empty_cache; at every other point
\* of the loop every yielded chunk is in the buffer or has been submitted.
C21_ChunksProducedLazily ==
    batch_size >= 1 =>
        /\ pc = "append" =>
               /\ gen_pc = "yielded"
               /\ chunk.data = emitted[N].data
               /\ N = SubmittedCount + Len(batch_chunks) + 1
               /\ Len(batch_chunks) < batch_size
               /\ SubmittedCount = Len(calls) * batch_size
               /\ empty_cache_calls = Len(calls)
               /\ Len(all_transcriptions) = SubmittedCount
        /\ pc \in {"iter", "batch", "final"} =>
               N = SubmittedCount + Len(batch_chunks)
        /\ pc = "batch" => Len(batch_chunks) = batch_size

\* a chunk made after an inference call on a full buffer has completed
C21_Witness ==
    /\ pc = "append" /\ batch_size >= 2
    /\ Len(calls) >= 1 /\ batch_chunks = <<>>
    /\ all_transcriptions # <<>>

\* C22: once loaded the waveform is never changed, the configuration is never
\* changed, and every chunk handed to the backend is a copy with the samples
\* of its window, so a backend that writes into what it is given reaches
\* neither the waveform nor a later chunk.
C22_WaveformAndConfigUnchanged ==
    /\ [][(pc # "load" => audio_data' = audio_data) /\ config' = config]_vars
    /\ [](\A b \in 1..Len(calls) : \A k \in 1..Len(calls[b]) :
              ~calls[b][k].view)
    /\ []((pc # "load" /\ audio_file # Missing) =>
              /\ audio_data = Decode(audio_file)
              /\ \A i \in 1..N :
                     emitted[i].data =
                         PySlice(Decode(audio_file), emitted[i].start,
                                 emitted[i].end).data)

\* a chunk that overlaps a chunk the backend has already been handed
C22_Witness ==
    /\ pc = "append" /\ Len(calls) >= 1 /\ OVS >= 1 /\ ValidConfig
    /\ Len(chunk.data) >= 2
    /\ emitted[N].start < emitted[N - 1].end

\* C23: for an empty waveform transcribe_audio submits nothing to the
\* backend and returns the empty string.
C23_EmptyWaveformEmptyString ==
    (gen_pc # "none" /\ Len(W) = 0) =>
        /\ calls = <<>>
        /\ exc = "none"
        /\ Finished => outcome = Returned(<<>>)

\* transcribe_audio has returned for a file that decodes to no samples
C23_Witness ==
    /\ Finished /\ gen_pc = "done" /\ audio_file = 0
    /\ outcome.status = "returned"

\* ------------------------------------------------------------ VideoPlayer
AliveReaders == {t \in Readers : Alive(t)}
MainIdle == tpc[MainThread] = "idle"

\* C24: a reader that took the end-of-video branch of a non-looping video
\* ends without an exception, and when it has ended while the controlling
\* thread, back from the play that started it, calls nothing else, the
\* player is fully stopped: state STOPPED, the stop event set (or dropped
\* with the thread reference), the capture released and None, the
\* frame-thread reference cleared.
C24_EndOfVideoStopsPlayer ==
    \A t \in ended :
        /\ tpc[t] # "raised"
        /\ (~Alive(t) /\ MainIdle /\ last_op = "play" /\ nthreads = t) =>
               /\ _state = "STOPPED"
               /\ _stop_event \in {"set", "None"}
               /\ cap = "None"
               /\ _frame_thread = NoThread

\* C25: a reader about to call read finds the capture open; a capture is
\* released only when no reader is alive; and when stop() has returned to
\* the controlling thread the state is STOPPED, cap is None and no reader
\* is alive.
C25_StopReleasesAfterReader ==
    /\ \A t \in Readers : tpc[t] = "read_60" => cap = "open"
    /\ cap = "released" => AliveReaders = {}
    /\ (MainIdle /\ last_op = "stop") =>
           /\ _state = "STOPPED"
           /\ cap = "None"
           /\ AliveReaders = {}

\* C26: at most one reader thread is alive, the one self._frame_thread
\* names, and when play() or resume() is about to start a new reader none
\* is alive.
C26_AtMostOneReader ==
    /\ Cardinality(AliveReaders) <= 1
    /\ AliveReaders \subseteq {_frame_thread}
    /\ (tpc[MainThread] \in {"play_97", "resume_151"} /\ NeedsNewThread) =>
           AliveReaders = {}

\* a second reader runs after the first has ended, and the controlling thread
\* has just gone through resume() without starting a third
C26_Witness ==
    /\ nthreads = 2 /\ Alive(2) /\ ~Alive(1)
    /\ MainIdle /\ last_op = "resume" /\ _state = "PLAYING"

\* the changes of self._state the claim lists, by the method that makes them
AllowedTransitions ==
    {<<"STOPPED", "PLAYING", "play">>,
     <<"PAUSED", "PLAYING", "play">>,
     <<"PAUSED", "PLAYING", "resume">>,
     <<"PLAYING", "PAUSED", "pause">>,
     <<"PLAYING", "STOPPED", "stop">>,
     <<"PAUSED", "STOPPED", "stop">>,
     <<"PLAYING", "STOPPED", "end_of_video">>,
     <<"PAUSED", "STOPPED", "end_of_video">>}

\* a call that returns at its guard ("already playing", "cannot pause", ...)
NoOpReturn ==
    /\ tpc[MainThread] \in {"play_85", "pause_107", "pause_111", "resume_142",
                            "resume_146", "stop_121"}
    /\ tpc'[MainThread] = "idle"

\* C27: a call that returns at its guard changes neither the state, the
\* capture, the reader thread nor the loop flag, and every change of the
\* state is one of STOPPED->PLAYING (play), PAUSED->PLAYING (play, resume),
\* PLAYING->PAUSED (pause), PLAYING/PAUSED->STOPPED (stop, end of video).
C27_OnlyListedTransitions ==
    /\ [][NoOpReturn => UNCHANGED <<_state, cap, _frame_thread, is_looping>>]_vars
    /\ [](trans.from # trans.to =>
             <<trans.from, trans.to, trans.by>> \in AllowedTransitions)

\* ------------------------------------------------ convert_video_to_images
\* C28: for a video whose readable frame count equals the reported
\* total_frames > 0 and a positive max_length, the call returns having saved
\* at most max_length images: the frames 0, interval, 2 * interval, ... below
\* total_frames with interval = ceil(total_frames / max_length), numbered
\* consecutively from 0.
C28_AtMostMaxLengthImages ==
    LET c == convert_video_to_images
        interval == (c.reported_frames + c.max_length - 1) \div c.max_length
        count == (c.reported_frames + interval - 1) \div interval
    IN  (/\ c.pc = "done" /\ c.video_exists /\ c.max_length >= 1
         /\ c.reported_frames >= 1 /\ c.readable_frames = c.reported_frames) =>
            /\ c.outcome = "returned"
            /\ Len(c.saved) <= c.max_length
            /\ c.saved = [k \in 1..count |->
                             [frame |-> (k - 1) * interval, image |-> k - 1]]

\* ------------------------------------------------------------ split_video
\* C29: with num_segments = n >= 1 the call hands exactly n ffmpeg commands
\* to the executor; segment i (from 0) starts at start_time + i * d and lasts
\* d, where d = (end - start_time) / n and end is end_time when the caller
\* gave one (0 included) and the duration of the video otherwise.
C29_EqualContiguousSegments ==
    LET c == split_video
        n == c.num_segments
        end_of_span == IF c.end_time = NoEndTime THEN c.video_duration
                       ELSE c.end_time
        span == end_of_span - c.start_time
    IN  (c.pc = "done" /\ c.outcome \in {"returned", "RuntimeError"}
             /\ c.submitted # <<>>) =>
            /\ Len(c.submitted) = n
            /\ \A k \in 1..Len(c.submitted) :
                   /\ c.submitted[k].t = Frac(span, n)
                   /\ c.submitted[k].ss = Frac(c.start_time * n + (k - 1) * span, n)

\* ---------------------------------------------------------- process_video
\* C30: process_video never raises: when it has ended it has returned a pair
\* of a boolean and a message, True exactly when ffmpeg ran and ended with
\* return code 0; and ffmpeg runs only after the path validation and the
\* ffprobe check, in this order, have both passed.
C30_NeverRaisesAndFfmpegLast ==
    LET c == process_video
    IN  /\ c.outcome.status # "raised"
        /\ c.pc = "done" =>
               /\ c.outcome.status = "returned"
               /\ c.outcome.ok \in BOOLEAN
               /\ c.outcome.message # ""
               /\ c.outcome.ok <=>
                      (c.steps = <<"validate", "ffprobe", "ffmpeg">>
                           /\ c.ffmpeg = "zero")
        /\ (\E k \in 1..Len(c.steps) : c.steps[k] = "ffmpeg") =>
               /\ c.steps = <<"validate", "ffprobe", "ffmpeg">>
               /\ c.path = "video"
               /\ c.ffprobe = "zero"

\* a call that validated the path, passed the ffprobe check, ran ffmpeg and
\* returned True
C30_Witness ==
    /\ process_video.pc = "done"
    /\ process_video.outcome.ok
    /\ process_video.steps = <<"validate", "ffprobe", "ffmpeg">>

====
